---- MODULE Spec2Model ----
(***************************************************************************)
(* syno-iscsi: one invocation of the command-line client, from os.Args to  *)
(* the exit code (src/main.go).  The remote storage client (syno.Client)   *)
(* is a black box: every call it receives is recorded in `calls', and its  *)
(* answer is chosen from a finite set of responses when the call is made.  *)
(*                                                                         *)
(* Strings that the program inspects character by character (names, size   *)
(* arguments, the volume's Free field, the bytes of the input reader) are  *)
(* sequences of one-character strings; strings it only compares or passes  *)
(* on (paths, uuids, iqns) are TLA+ strings.                               *)
(*                                                                         *)
(* Machine integers are scaled: a word has WordBits bits where the program *)
(* has 64, and one "gigabyte" is 2^GbBits bytes where the program has      *)
(* 2^30.  uint64 arithmetic is arithmetic modulo 2^WordBits, int (and      *)
(* int64) is the two's-complement reading of the same bits.                *)
(***************************************************************************)
EXTENDS Integers, Sequences, FiniteSets, TLC

\* ------------------------------------------------------------- bounds
WordBits == 6
GbBits == 2
MaxList == 2
UnitBits == 2

\* ------------------------------------------------------------- machine integers
RECURSIVE Pow2(_)
Pow2(n) == IF n = 0 THEN 1 ELSE 2 * Pow2(n - 1)

UintMod == Pow2(WordBits)
MaxUint == UintMod - 1
MaxInt == Pow2(WordBits - 1) - 1

\* const gb = 1024 * 1024 * 1024
gb == Pow2(GbBits)

\* uint64(x) of a non-negative int x, and a uint64 product
MulUint(a, b) == (a * b) % UintMod

\* int64(x) of a uint64 x: the two's-complement reading
ToInt64(x) == IF x > MaxInt THEN x - UintMod ELSE x

\* ------------------------------------------------------------- characters
Lower == {"a", "l", "t", "n", "o", "x"}
Upper == {"Z"}
Digits == {"0", "1", "2", "3", "4", "5", "6", "7", "8", "9"}
DigitVal == [c \in Digits |->
    CASE c = "0" -> 0 [] c = "1" -> 1 [] c = "2" -> 2 [] c = "3" -> 3
      [] c = "4" -> 4 [] c = "5" -> 5 [] c = "6" -> 6 [] c = "7" -> 7
      [] c = "8" -> 8 [] c = "9" -> 9]
DigitChar == <<"0", "1", "2", "3", "4", "5", "6", "7", "8", "9">>

\* fmt.Sprint of a non-negative integer
RECURSIVE Itoa(_)
Itoa(n) == IF n < 10 THEN <<DigitChar[n + 1]>>
           ELSE Itoa(n \div 10) \o <<DigitChar[(n % 10) + 1]>>

\* a pattern that lets `_' through as well
lunRegexWithUnderscore(s) ==
    /\ Len(s) >= 1
    /\ \A i \in 1..Len(s) : s[i] \in Lower \cup Upper \cup Digits \cup {"-", "_"}
\* lunRegex = regexp.MustCompile("^[a-zA-Z0-9-]+$")
lunRegex(s) ==
    /\ Len(s) >= 1
    /\ \A i \in 1..Len(s) : s[i] \in Lower \cup Upper \cup Digits \cup {"-"}

\* The value of a non-empty string of decimal digits, or -1 when it does
\* not fit in `max' (strconv's range error).
RECURSIVE DigitsValue(_, _, _)
DigitsValue(s, acc, max) ==
    IF s = <<>> THEN acc
    ELSE LET v == acc * 10 + DigitVal[Head(s)]
         IN  IF v > max THEN -1 ELSE DigitsValue(Tail(s), v, max)

AllDigits(s) == Len(s) >= 1 /\ \A i \in 1..Len(s) : s[i] \in Digits

\* strconv.Atoi: an optional sign, then decimal digits, within the range of
\* int.  [ok, val]
Atoi(s) ==
    LET signed == Len(s) >= 1 /\ s[1] \in {"+", "-"}
        neg    == Len(s) >= 1 /\ s[1] = "-"
        body   == IF signed THEN Tail(s) ELSE s
        mag    == IF AllDigits(body)
                  THEN DigitsValue(body, 0, IF neg THEN MaxInt + 1 ELSE MaxInt)
                  ELSE -1
    IN  IF mag < 0 THEN [ok |-> FALSE, val |-> 0]
        ELSE [ok |-> TRUE, val |-> IF neg THEN 0 - mag ELSE mag]

\* strconv.ParseUint(s, 10, 64): decimal digits only, within uint64.
ParseUint(s) ==
    LET v == IF AllDigits(s) THEN DigitsValue(s, 0, MaxUint) ELSE -1
    IN  IF v < 0 THEN [ok |-> FALSE, val |-> 0] ELSE [ok |-> TRUE, val |-> v]

\* func bytesToGiB(size uint64) int
bytesToGiB(size) == size \div gb

\* ------------------------------------------------------------- messages (const block)
missingGlobalArgsMsg == "the following global flag(s) are missing: %s"
notEnoughArgsMsg == "invalid number of arguments, expected %d but got %d"
lunReclaimThinMsg == "--reclaim can only be used with --thin"
lunInvalidNameMsg == "invalid LUN name, must consist of a-z, A-Z, 0-9, and hyphens (-)"
lunInvalidSizeMsg == "invalid LUN size, must be a positive integer"
volumeNotEnoughSpaceMsg == "not enough space, %s has %d GiB free"
lunCannotDecreaseSizeMsg == "LUN cannot decrease in size"
targetActiveSessionMsg == "There are active sessions, please logout of all clients before continuing (force delete with -f)"
targetForceDeleteMsg == "Force deleting even though there are active sessions"
volumeNotFoundMsg == "could not find volume with path: %s"
lunNotFoundMsg == "could not find LUN with name: %s"
targetNotFoundMsg == "could not find target with name: %s"
lunCreatedMsg == "LUN created successfully"
lunMappedMsg == "LUN mapped to the target successfully"
lunResizedMsg == "LUN resized successfully"
lunClonedMsg == "LUN cloned successfully"
lunDeletedMsg == "LUN deleted successfully"
targetCreatedMsg == "Target created successfully"
targetDeletedMsg == "Target deleted successfully"

\* strings written by the handlers that have no named constant
lunDeleteSureMsg == "Are you sure you want to delete this lun?"
lunDeleteMappedMsg == "It is mapped to the targets: %s"
lunDeleteEnterMsg == "Enter the lun name (%s) to continue: "
targetDeleteSureMsg == "Are you sure you want to delete this target?"
targetDeleteEnterMsg == "Enter the target name (%s) to continue: "
cancelledMsg == "Cancelled"
enterPasswordMsg == "Enter Password: "
logoutFailedMsg == "Error: failed to logout of DSM: %s"
mainErrorMsg == "Error: %s"
mainUnknownErrorMsg == "Unknown error: %s"
invalidUserPassMsg == "Invalid user and/or pass"
problemConnectingMsg == "problem connecting to host (%s)"
loginError400 == "DSM Api error. Error code:400"
loginErrorDial == "dial tcp: connection refused"
remoteError == "remote call failed"
parseUintError == "strconv.ParseUint: invalid syntax"
readPassError == "term: read failed"

\* One line written to `out': the format and its arguments.
Line(fmt, a) == <<fmt, a>>

\* ------------------------------------------------------------- errors
\* error values: nil, *errApp (type errApp struct), any other error
Nil == <<"nil", "", <<>>>>
errApp(fmt, a) == <<"errApp", fmt, a>>
otherErr(s) == <<"error", s, <<>>>>
IsNil(e) == e[1] = "nil"
IsErrApp(e) == e[1] = "errApp"

\* ------------------------------------------------------------- the appliance's entities
\* webapi.VolInfo, webapi.LunInfo, webapi.TargetInfo: the fields main.go reads.
lunName1 == <<"l", "1">>
lunName2 == <<"l", "2">>
targetName1 == <<"t", "1">>
targetName2 == <<"t", "2">>

vol1 == [Path |-> "/vol1", Status |-> "normal", FsType |-> "ext4",
         Size |-> Itoa(10 * gb), Free |-> Itoa(5 * gb)]
vol2 == [Path |-> "/vol2", Status |-> "degraded", FsType |-> "btrfs",
         Size |-> Itoa(5 * gb), Free |-> Itoa(2 * gb + 1)]
\* a second entry for /vol1, of an unsupported filesystem, all of uint64 free
vol3 == [Path |-> "/vol1", Status |-> "normal", FsType |-> "zfs",
         Size |-> Itoa(MaxUint), Free |-> Itoa(MaxUint)]
\* a Free field that is not a decimal number
vol4 == [Path |-> "/vol2", Status |-> "crashed", FsType |-> "ext4",
         Size |-> Itoa(5 * gb), Free |-> <<"x">>]
VolumePool == {vol1, vol2, vol3, vol4}

lun1 == [Name |-> lunName1, Uuid |-> "uuid-1", LunType |-> 3, Location |-> "/vol1",
         Size |-> 5 * gb, Used |-> 3 * gb, Status |-> "normal"]
\* a second LUN called l1, thin, of a size that is no whole number of gigabytes
lun2 == [Name |-> lunName1, Uuid |-> "uuid-2", LunType |-> 263, Location |-> "/vol2",
         Size |-> gb + 1, Used |-> 0, Status |-> "degraded"]
\* a LUN whose name is the empty string, on a volume that no list has
lun3 == [Name |-> <<>>, Uuid |-> "uuid-3", LunType |-> 999, Location |-> "/vol3",
         Size |-> 0, Used |-> 0, Status |-> "normal"]
LunPool == {lun1, lun2, lun3}

target1 == [Name |-> targetName1, Iqn |-> "iqn:target1", MaxSessions |-> 2,
            MappedLuns |-> <<"uuid-1", "uuid-2">>,
            ConnectedSessions |-> <<"iqn:client">>, TargetId |-> 1]
\* a second target called t1, without sessions, mapping one LUN twice
target2 == [Name |-> targetName1, Iqn |-> "iqn:target2", MaxSessions |-> 1,
            MappedLuns |-> <<"uuid-1", "uuid-1">>,
            ConnectedSessions |-> <<>>, TargetId |-> 2]
\* a target whose name is the empty string, without sessions
target3 == [Name |-> <<>>, Iqn |-> "iqn:target3", MaxSessions |-> 1,
            MappedLuns |-> <<"uuid-3">>,
            ConnectedSessions |-> <<>>, TargetId |-> 3]
TargetPool == {target1, target2, target3}

NoVolume == [Path |-> "", Status |-> "", FsType |-> "", Size |-> <<>>, Free |-> <<>>]
NoLun == [Name |-> <<>>, Uuid |-> "", LunType |-> 0, Location |-> "", Size |-> 0,
          Used |-> 0, Status |-> ""]
NoTarget == [Name |-> <<>>, Iqn |-> "", MaxSessions |-> 0, MappedLuns |-> <<>>,
             ConnectedSessions |-> <<>>, TargetId |-> 0]

\* the lists a list call may return
ListsOf(pool) == UNION {[1..k -> pool] : k \in 0..MaxList}

Min(S) == CHOOSE x \in S : \A y \in S : x <= y

\* ------------------------------------------------------------- name resolution
\* func getVolumeByPath: the first volume of the list with that path
getVolumeByPath(volumes, path) ==
    LET idx == {i \in 1..Len(volumes) : volumes[i].Path = path}
    IN  IF idx = {} THEN [err |-> errApp(volumeNotFoundMsg, <<path>>), val |-> NoVolume]
        ELSE [err |-> Nil, val |-> volumes[Min(idx)]]

\* a lookup that returns the last LUN of that name
getLunByNameLast(luns, name) ==
    LET idx == {i \in 1..Len(luns) : luns[i].Name = name}
    IN  IF idx = {} THEN [err |-> errApp(lunNotFoundMsg, <<name>>), val |-> NoLun]
        ELSE [err |-> Nil, val |-> luns[CHOOSE i \in idx : \A j \in idx : j <= i]]
\* func getLunByName: the first LUN of the list with that name
getLunByName(luns, name) ==
    LET idx == {i \in 1..Len(luns) : luns[i].Name = name}
    IN  IF idx = {} THEN [err |-> errApp(lunNotFoundMsg, <<name>>), val |-> NoLun]
        ELSE [err |-> Nil, val |-> luns[Min(idx)]]

\* func getTargetByName: the first target of the list with that name
getTargetByName(targets, name) ==
    LET idx == {i \in 1..Len(targets) : targets[i].Name = name}
    IN  IF idx = {} THEN [err |-> errApp(targetNotFoundMsg, <<name>>), val |-> NoTarget]
        ELSE [err |-> Nil, val |-> targets[Min(idx)]]

\* a check that lets more arguments through
verifyArgsAtLeast(numArgs, a) ==
    IF Len(a) < numArgs THEN errApp(notEnoughArgsMsg, <<numArgs, Len(a)>>) ELSE Nil
\* func verifyArgs(numArgs int, ctx *cli.Context) error
verifyArgs(numArgs, a) ==
    IF Len(a) # numArgs THEN errApp(notEnoughArgsMsg, <<numArgs, Len(a)>>) ELSE Nil

\* func scanLine: bufio.Scanner with ScanLines over the bytes of `in': the
\* bytes before the first newline without one trailing carriage return, all
\* the bytes when there is no newline, "" at end of input.
scanLine(bytes) ==
    LET nl   == {i \in 1..Len(bytes) : bytes[i] = "\n"}
        raw  == IF nl = {} THEN bytes ELSE SubSeq(bytes, 1, Min(nl) - 1)
    IN  IF Len(raw) >= 1 /\ raw[Len(raw)] = "\r" THEN SubSeq(raw, 1, Len(raw) - 1)
        ELSE raw

\* ------------------------------------------------------------- state
VARIABLES
    cmd,        \* the subcommand of this invocation
    args,       \* ctx.Args(): the positional arguments
    flags,      \* the subcommand's boolean flags
    glob,       \* the globals host, port, user, pass, https
    pc,         \* where the invocation stands
    lv,         \* the locals that outlive a step: size, and term.IsTerminal(stdin)
    calls,      \* the calls made on synoClient, in order
    out,        \* the lines written to `out', in order
    input,      \* the bytes of `in' that scanLine consumed
    reads,      \* the number of scanLine calls
    ret,        \* the error returned by the handler (app.Run)
    exitCode    \* the process's exit code, -1 while it runs

vars == <<cmd, args, flags, glob, pc, lv, calls, out, input, reads, ret, exitCode>>

defaultPort == 5000

NoFlags == [thin |-> FALSE, reclaim |-> FALSE, syncCache |-> FALSE,
            force |-> FALSE, skip |-> FALSE]

NoLocals == [size |-> 0, isTerminal |-> FALSE]

\* one call on synoClient: the method, its argument and what it returned
Call(op, arg, res) == <<op, arg, res>>

\* ------------------------------------------------------------- validation
\* The part of each Action before initAndLogin: [err, size].
Valid(e, sz) == [err |-> e, size |-> sz]

listValidate(a) == Valid(verifyArgs(0, a), 0)

\* ------------------------------------------------------------- session
LoginResults == {Nil, otherErr(loginError400), otherErr(loginErrorDial), otherErr(remoteError)}

\* the error initAndLogin returns for a failed Login
loginFailure(e) ==
    IF e[2] = loginError400 THEN errApp(invalidUserPassMsg, <<>>)
    ELSE IF e[2] = loginErrorDial THEN errApp(problemConnectingMsg, <<e[2]>>)
    ELSE e

\* the first pc of the handler's body, after `defer logout()'
Body(c) == c

\* a check that wants --pass on a terminal too
missingFlagsWithoutPrompt(g, isTerminal) ==
    (IF g.host = "" THEN <<"host">> ELSE <<>>)
    \o (IF g.user = "" THEN <<"user">> ELSE <<>>)
    \o (IF g.pass = "" THEN <<"pass">> ELSE <<>>)
\* initAndLogin: the global flags that are missing
missingFlags(g, isTerminal) ==
    (IF g.host = "" THEN <<"host">> ELSE <<>>)
    \o (IF g.user = "" THEN <<"user">> ELSE <<>>)
    \o (IF g.pass = "" /\ ~isTerminal THEN <<"pass">> ELSE <<>>)

\* an initAndLogin that lets the handler go on after a failed Login
initAndLoginIgnoringFailure ==
    /\ pc = "initAndLogin"
    /\ \E isTerminal \in (IF glob.pass = "" THEN BOOLEAN ELSE {FALSE}),
          typed \in {Nil, otherErr(readPassError)}, login \in LoginResults :
      /\ lv' = [lv EXCEPT !.isTerminal = isTerminal]
      /\
        LET missing == missingFlags(glob, isTerminal)
            ask     == glob.pass = ""
            pass    == IF ask THEN "typed" ELSE glob.pass
        IN  IF Len(missing) > 0
            THEN /\ ret' = errApp(missingGlobalArgsMsg, <<missing>>)
                 /\ pc' = "main"
                 /\ UNCHANGED <<glob, calls, out>>
            ELSE IF ask /\ ~IsNil(typed)
            THEN /\ out' = Append(out, Line(enterPasswordMsg, <<>>))
                 /\ ret' = typed
                 /\ pc' = "main"
                 /\ UNCHANGED <<glob, calls>>
            ELSE /\ out' = IF ask
                           THEN out \o <<Line(enterPasswordMsg, <<>>), Line("\n", <<>>)>>
                           ELSE out
                 /\ glob' = [glob EXCEPT !.pass = pass]
                 /\ calls' = calls \o
                        <<Call("Init", <<glob.host, glob.port, glob.user, pass, glob.https>>, Nil),
                          Call("Login", <<>>, login)>>
                 /\ pc' = Body(cmd) /\ ret' = ret
    /\ UNCHANGED <<cmd, args, flags, input, reads, exitCode>>

\* func initAndLogin; isTerminal is term.IsTerminal(stdin), which is asked
\* only when pass is empty and kept in lv; typed is what term.ReadPassword
\* returns, login is what Login returns.
initAndLogin ==
    /\ pc = "initAndLogin"
    /\ \E isTerminal \in (IF glob.pass = "" THEN BOOLEAN ELSE {FALSE}),
          typed \in {Nil, otherErr(readPassError)}, login \in LoginResults :
      /\ lv' = [lv EXCEPT !.isTerminal = isTerminal]
      /\
        LET missing == missingFlags(glob, isTerminal)
            ask     == glob.pass = ""
            pass    == IF ask THEN "typed" ELSE glob.pass
        IN  IF Len(missing) > 0
            THEN /\ ret' = errApp(missingGlobalArgsMsg, <<missing>>)
                 /\ pc' = "main"
                 /\ UNCHANGED <<glob, calls, out>>
            ELSE IF ask /\ ~IsNil(typed)
            THEN /\ out' = Append(out, Line(enterPasswordMsg, <<>>))
                 /\ ret' = typed
                 /\ pc' = "main"
                 /\ UNCHANGED <<glob, calls>>
            ELSE /\ out' = IF ask
                           THEN out \o <<Line(enterPasswordMsg, <<>>), Line("\n", <<>>)>>
                           ELSE out
                 /\ glob' = [glob EXCEPT !.pass = pass]
                 /\ calls' = calls \o
                        <<Call("Init", <<glob.host, glob.port, glob.user, pass, glob.https>>, Nil),
                          Call("Login", <<>>, login)>>
                 /\ IF IsNil(login)
                    THEN pc' = Body(cmd) /\ ret' = ret
                    ELSE pc' = "main" /\ ret' = loginFailure(login)
    /\ UNCHANGED <<cmd, args, flags, input, reads, exitCode>>

\* what synoClient.Logout() returns
LogoutResults == {Nil, otherErr(remoteError)}

\* a logout whose failure becomes the result of the command
logoutReturnsFailure ==
    /\ pc = "logout"
    /\ \E r \in LogoutResults :
        /\ calls' = Append(calls, Call("Logout", <<>>, r))
        /\ out' = IF IsNil(r) THEN out ELSE Append(out, Line(logoutFailedMsg, <<r[2]>>))
        /\ ret' = IF IsNil(r) THEN ret ELSE r
    /\ pc' = "main"
    /\ UNCHANGED <<cmd, args, flags, glob, lv, input, reads, exitCode>>

\* func logout, run by `defer logout()' when the handler returns
logout ==
    /\ pc = "logout"
    /\ \E r \in LogoutResults :
        /\ calls' = Append(calls, Call("Logout", <<>>, r))
        /\ out' = IF IsNil(r) THEN out ELSE Append(out, Line(logoutFailedMsg, <<r[2]>>))
    /\ pc' = "main"
    /\ UNCHANGED <<cmd, args, flags, glob, lv, input, reads, ret, exitCode>>

\* func main: report the error of app.Run and exit
main ==
    /\ pc = "main"
    /\ IF IsNil(ret)
       THEN out' = out /\ exitCode' = 0
       ELSE /\ out' = Append(out, Line(IF IsErrApp(ret) THEN mainErrorMsg
                                       ELSE mainUnknownErrorMsg, <<ret[2], ret[3]>>))
            /\ exitCode' = 1
    /\ pc' = "exit"
    /\ UNCHANGED <<cmd, args, flags, glob, lv, calls, input, reads, ret>>

\* a return that runs the logout for a nil error only
ReturnWithoutLogoutOnError(e) == ret' = e /\ pc' = IF IsNil(e) THEN "logout" ELSE "main"
\* `return e' in a handler's body: the deferred logout runs next
Return(e) == ret' = e /\ pc' = "logout"

\* ------------------------------------------------------------- the client's answers
Failed == [err |-> otherErr(remoteError), val |-> <<>>]
VolumeListResults == {Failed} \cup {[err |-> Nil, val |-> l] : l \in ListsOf(VolumePool)}
LunListResults == {Failed} \cup {[err |-> Nil, val |-> l] : l \in ListsOf(LunPool)}
TargetListResults == {Failed} \cup {[err |-> Nil, val |-> l] : l \in ListsOf(TargetPool)}
\* what a mutating call (LunCreate, LunUpdate, ...) returns
CallResults == {Nil, otherErr(remoteError)}

\* ------------------------------------------------------------- list commands
\* func readableByteSize, on a scale of its own: the base of the units is
\* 2^UnitBits where the program has 1024 = 2^10, a byte count has ByteBits
\* bits where uint64 has 64 (6.4 units), and a float64 carries MantissaBits
\* significant bits where it has 53 (5.3 units).
ByteBits == 6 * UnitBits + (4 * UnitBits + 9) \div 10
MantissaBits == 5 * UnitBits + (3 * UnitBits + 9) \div 10
MaxByteCount == Pow2(ByteBits) - 1
UnitBase == Pow2(UnitBits)

\* the number of bits of n
RECURSIVE BitLength(_)
BitLength(n) == IF n = 0 THEN 0 ELSE 1 + BitLength(n \div 2)

\* fsize := float64(size): the nearest value with MantissaBits significant
\* bits, the even one of two nearest
Float64(size) ==
    IF BitLength(size) <= MantissaBits THEN size
    ELSE LET e    == BitLength(size) - MantissaBits
             q    == size \div Pow2(e)
             r    == size % Pow2(e)
             half == Pow2(e - 1)
             up   == r > half \/ (r = half /\ q % 2 = 1)
         IN  (IF up THEN q + 1 ELSE q) * Pow2(e)

\* int(math.Log(fsize) / math.Log(1024)) for fsize >= 1: the largest k with
\* 1024^k <= fsize (the quotient of the logarithms taken at its exact value)
RECURSIVE LogUnit(_)
LogUnit(fsize) == IF fsize < UnitBase THEN 0 ELSE 1 + LogUnit(fsize \div UnitBase)

units == <<"B", "KiB", "MiB", "GiB", "TiB", "PiB", "EiB">>

\* fmt.Sprintf("%.2f", num / den) for a quotient that a float64 holds
\* exactly: the hundredths nearest to it, the even one of two nearest
Sprintf2f(num, den) ==
    LET q == (num * 100) \div den
        r == (num * 100) % den
        h == IF 2 * r > den \/ (2 * r = den /\ q % 2 = 1) THEN q + 1 ELSE q
    IN  Itoa(h \div 100) \o <<".", DigitChar[((h \div 10) % 10) + 1], DigitChar[(h % 10) + 1]>>

\* func readableByteSize(size uint64) string; units[exp] panics beyond EiB
readableByteSize(size) ==
    LET fsize == Float64(size)
        exp   == LogUnit(fsize)
    IN  IF size < 1 THEN <<"0", ".", "0", "0", " ", "B">>
        ELSE IF exp + 1 > Len(units) THEN <<"panic: index out of range">>
        ELSE Sprintf2f(fsize, UnitBase ^ exp) \o <<" ", units[exp + 1]>>

\* readableByteSize(x), in a cell of a table
Readable(x) == readableByteSize(x)

volumeRow(volume) ==
    LET size == ParseUint(volume.Size)
        free == ParseUint(volume.Free)
        both == size.ok /\ free.ok
    IN  Line("%s\t%s\t%s\t%s\t%s\n",
             <<volume.Path, volume.Status, volume.FsType,
               IF both THEN Readable(size.val) ELSE <<"?">>,
               IF both THEN Readable((size.val - free.val) % UintMod) ELSE <<"?">>>>)

\* func IsThin(lunType int) bool
IsThin(lunType) ==
    CASE lunType = 3 -> FALSE
      [] lunType = 15 -> TRUE
      [] lunType = 259 -> FALSE
      [] lunType = 263 -> TRUE
      [] OTHER -> FALSE

lunRow(lun) ==
    Line("%s\t%s\t%s\t%s\t%s\t%s\n",
         <<lun.Name, lun.Location, lun.Status, Readable(lun.Size), Readable(lun.Used),
           IF IsThin(lun.LunType) THEN "yes" ELSE "no">>)

\* func buildLunString: for every mapped uuid, in order, the names of the
\* LUNs of the list with that uuid
RECURSIVE namesWithUuid(_, _)
namesWithUuid(luns, uuid) ==
    IF luns = <<>> THEN <<>>
    ELSE (IF Head(luns).Uuid = uuid THEN <<Head(luns).Name>> ELSE <<>>)
         \o namesWithUuid(Tail(luns), uuid)

RECURSIVE buildLunString(_, _)
buildLunString(luns, mappedLuns) ==
    IF mappedLuns = <<>> THEN <<>>
    ELSE namesWithUuid(luns, Head(mappedLuns)) \o buildLunString(luns, Tail(mappedLuns))

targetRow(luns, target) ==
    Line("%s\t%s\t%s\t%s\n",
         <<target.Name, target.Iqn,
           <<Len(target.ConnectedSessions), target.MaxSessions>>,
           buildLunString(luns, target.MappedLuns)>>)

\* volumeListCmd, after `defer logout()'
volumeListCmd ==
    /\ pc = "volume list"
    /\ \E vl \in VolumeListResults :
        /\ calls' = Append(calls, Call("VolumeList", <<>>, vl))
        /\ IF ~IsNil(vl.err)
           THEN out' = out /\ Return(vl.err)
           ELSE /\ out' = out \o <<Line("PATH\tSTATUS\tFILESYSTEM\tSIZE\tUSED\n", <<>>)>>
                               \o [i \in 1..Len(vl.val) |-> volumeRow(vl.val[i])]
                /\ Return(Nil)
    /\ UNCHANGED <<cmd, args, flags, glob, lv, input, reads, exitCode>>

\* lunListCmd, after `defer logout()'
lunListCmd ==
    /\ pc = "lun list"
    /\ \E ll \in LunListResults :
        /\ calls' = Append(calls, Call("LunList", <<>>, ll))
        /\ IF ~IsNil(ll.err)
           THEN out' = out /\ Return(ll.err)
           ELSE /\ out' = out \o <<Line("NAME\tVOLUME\tSTATUS\tSIZE\tUSED\tTHIN\n", <<>>)>>
                               \o [i \in 1..Len(ll.val) |-> lunRow(ll.val[i])]
                /\ Return(Nil)
    /\ UNCHANGED <<cmd, args, flags, glob, lv, input, reads, exitCode>>

\* targetListCmd, after `defer logout()'
targetListCmd ==
    /\ pc = "target list"
    /\ \E tl \in TargetListResults, ll \in LunListResults :
        IF ~IsNil(tl.err)
        THEN /\ calls' = Append(calls, Call("TargetList", <<>>, tl))
             /\ out' = out
             /\ Return(tl.err)
        ELSE /\ calls' = calls \o <<Call("TargetList", <<>>, tl), Call("LunList", <<>>, ll)>>
             /\ IF ~IsNil(ll.err)
                THEN out' = out /\ Return(ll.err)
                ELSE /\ out' = out \o <<Line("NAME\tIQN\tSESSIONS\tLUNS\n", <<>>)>>
                                    \o [i \in 1..Len(tl.val) |-> targetRow(ll.val, tl.val[i])]
                     /\ Return(Nil)
    /\ UNCHANGED <<cmd, args, flags, glob, lv, input, reads, exitCode>>

\* ------------------------------------------------------------- lun create
\* syno.LUN_SPACE_RECLAMATION, syno.LUN_FUA_WRITE, syno.LUN_SYNC_CACHE
LUN_SPACE_RECLAMATION == [DevAttrib |-> "emulate_tpu", Enable |-> 1]
LUN_FUA_WRITE == [DevAttrib |-> "emulate_fua_write", Enable |-> 1]
LUN_SYNC_CACHE == [DevAttrib |-> "emulate_sync_cache", Enable |-> 1]

\* a table with the two btrfs codes the other way round
GetLunTypeSwapped(fsType, thin) ==
    CASE fsType = "ext4" -> IF thin THEN "ADV" ELSE "FILE"
      [] fsType = "btrfs" -> IF thin THEN "BLUN_THICK" ELSE "BLUN"
      [] OTHER -> ""
\* func GetLunType(fsType string, thin bool) string
GetLunType(fsType, thin) ==
    CASE fsType = "ext4" -> IF thin THEN "ADV" ELSE "FILE"
      [] fsType = "btrfs" -> IF thin THEN "BLUN" ELSE "BLUN_THICK"
      [] OTHER -> ""

\* sizeGB, err := strconv.Atoi(sizeStr); size := uint64(sizeGB) * gb
sizeOf(sizeStr) ==
    LET n == Atoi(sizeStr)
    IN  IF ~n.ok \/ n.val <= 0 THEN Valid(errApp(lunInvalidSizeMsg, <<>>), 0)
        ELSE Valid(Nil, MulUint(n.val, gb))

\* a validation that looks at the name before the flags
lunCreateValidateNameFirst(a, f) ==
    IF ~IsNil(verifyArgs(3, a)) THEN Valid(verifyArgs(3, a), 0)
    ELSE IF ~lunRegex(a[1]) THEN Valid(errApp(lunInvalidNameMsg, <<>>), 0)
    ELSE IF f.reclaim /\ ~f.thin THEN Valid(errApp(lunReclaimThinMsg, <<>>), 0)
    ELSE sizeOf(a[3])
\* lunCreateCmd, up to initAndLogin
lunCreateValidate(a, f) ==
    IF ~IsNil(verifyArgs(3, a)) THEN Valid(verifyArgs(3, a), 0)
    ELSE IF f.reclaim /\ ~f.thin THEN Valid(errApp(lunReclaimThinMsg, <<>>), 0)
    ELSE IF ~lunRegex(a[1]) THEN Valid(errApp(lunInvalidNameMsg, <<>>), 0)
    ELSE sizeOf(a[3])

\* What a handler's body did: the calls it made, the lines it wrote, the
\* bytes it read from `in' with the number of scanLine calls, and the error
\* it returned.
Did(c, o, e) == [calls |-> c, out |-> o, err |-> e, input |-> <<>>, reads |-> 0]

\* free, err := strconv.ParseUint(volume.Free, 10, 64); the comparison with
\* the bytes the operation needs; the error, or Nil
spaceCheck(volume, path, required) ==
    LET free == ParseUint(volume.Free)
    IN  IF ~free.ok THEN otherErr(parseUintError)
        ELSE IF required > free.val
        THEN errApp(volumeNotEnoughSpaceMsg, <<path, bytesToGiB(free.val)>>)
        ELSE Nil

\* lunCreateCmd, after `defer logout()': vl is what VolumeList returns, cr
\* what LunCreate returns
lunCreateBody(a, f, size, vl, cr) ==
    LET name       == a[1]
        volumePath == a[2]
        c1         == <<Call("VolumeList", <<>>, vl)>>
        volume     == getVolumeByPath(vl.val, volumePath)
        space      == spaceCheck(volume.val, volumePath, size)
        devAttributes ==
            (IF f.reclaim THEN <<LUN_SPACE_RECLAMATION>> ELSE <<>>)
            \o (IF f.syncCache THEN <<LUN_FUA_WRITE, LUN_SYNC_CACHE>> ELSE <<>>)
        spec       == [Name |-> name, Location |-> volumePath, Size |-> ToInt64(size),
                       Type |-> GetLunType(volume.val.FsType, f.thin),
                       DevAttribs |-> devAttributes]
        c2         == Append(c1, Call("LunCreate", spec, cr))
    IN  IF ~IsNil(vl.err) THEN Did(c1, <<>>, vl.err)
        ELSE IF ~IsNil(volume.err) THEN Did(c1, <<>>, volume.err)
        ELSE IF ~IsNil(space) THEN Did(c1, <<>>, space)
        ELSE IF ~IsNil(cr) THEN Did(c2, <<>>, cr)
        ELSE Did(c2, <<Line(lunCreatedMsg, <<>>)>>, Nil)

\* a handler's body takes effect; the deferred logout runs next
Do(d) ==
    /\ calls' = calls \o d.calls
    /\ out' = out \o d.out
    /\ input' = d.input
    /\ reads' = reads + d.reads
    /\ Return(d.err)
    /\ UNCHANGED <<cmd, args, flags, glob, lv, exitCode>>

lunCreateCmd ==
    /\ pc = "lun create"
    /\ \E vl \in VolumeListResults, cr \in CallResults :
        Do(lunCreateBody(args, flags, lv.size, vl, cr))

\* ------------------------------------------------------------- lun map
lunMapValidate(a) == Valid(verifyArgs(2, a), 0)

\* a `lun map' that goes on when the target was not found
lunMapBodyUnchecked(a, ll, tl, cr) ==
    LET lunName    == a[1]
        targetName == a[2]
        c1     == <<Call("LunList", <<>>, ll)>>
        lun    == getLunByName(ll.val, lunName)
        c2     == Append(c1, Call("TargetList", <<>>, tl))
        target == getTargetByName(tl.val, targetName)
        targetId == Itoa(target.val.TargetId)
        c3     == Append(c2, Call("LunMapTarget", <<<<targetId>>, lun.val.Uuid>>, cr))
    IN  IF ~IsNil(ll.err) THEN Did(c1, <<>>, ll.err)
        ELSE IF ~IsNil(lun.err) THEN Did(c1, <<>>, lun.err)
        ELSE IF ~IsNil(tl.err) THEN Did(c2, <<>>, tl.err)
        ELSE IF ~IsNil(cr) THEN Did(c3, <<>>, cr)
        ELSE Did(c3, <<Line(lunMappedMsg, <<>>)>>, Nil)

\* lunMapCmd, after `defer logout()'
lunMapBody(a, ll, tl, cr) ==
    LET lunName    == a[1]
        targetName == a[2]
        c1     == <<Call("LunList", <<>>, ll)>>
        lun    == getLunByName(ll.val, lunName)
        c2     == Append(c1, Call("TargetList", <<>>, tl))
        target == getTargetByName(tl.val, targetName)
        targetId == Itoa(target.val.TargetId)
        c3     == Append(c2, Call("LunMapTarget", <<<<targetId>>, lun.val.Uuid>>, cr))
    IN  IF ~IsNil(ll.err) THEN Did(c1, <<>>, ll.err)
        ELSE IF ~IsNil(lun.err) THEN Did(c1, <<>>, lun.err)
        ELSE IF ~IsNil(tl.err) THEN Did(c2, <<>>, tl.err)
        ELSE IF ~IsNil(target.err) THEN Did(c2, <<>>, target.err)
        ELSE IF ~IsNil(cr) THEN Did(c3, <<>>, cr)
        ELSE Did(c3, <<Line(lunMappedMsg, <<>>)>>, Nil)

lunMapCmd ==
    /\ pc = "lun map"
    /\ \E ll \in LunListResults, tl \in TargetListResults, cr \in CallResults :
        Do(lunMapBody(args, ll, tl, cr))

\* ------------------------------------------------------------- lun resize
lunResizeValidate(a) ==
    IF ~IsNil(verifyArgs(2, a)) THEN Valid(verifyArgs(2, a), 0)
    ELSE sizeOf(a[2])

\* a check that lets the LUN's own size through
cannotDecreaseStrict(size, lun) == size < lun.Size
\* if size <= lun.Size
cannotDecrease(size, lun) == size <= lun.Size

\* lunResizeCmd, after `defer logout()'
lunResizeBody(a, size, ll, vl, cr) ==
    LET name   == a[1]
        c1     == <<Call("LunList", <<>>, ll)>>
        lun    == getLunByName(ll.val, name)
        c2     == Append(c1, Call("VolumeList", <<>>, vl))
        volume == getVolumeByPath(vl.val, lun.val.Location)
        space  == spaceCheck(volume.val, lun.val.Location, size - lun.val.Size)
        spec   == [Uuid |-> lun.val.Uuid, NewSize |-> size]
        c3     == Append(c2, Call("LunUpdate", spec, cr))
    IN  IF ~IsNil(ll.err) THEN Did(c1, <<>>, ll.err)
        ELSE IF ~IsNil(lun.err) THEN Did(c1, <<>>, lun.err)
        ELSE IF cannotDecrease(size, lun.val)
        THEN Did(c1, <<>>, errApp(lunCannotDecreaseSizeMsg, <<>>))
        ELSE IF ~IsNil(vl.err) THEN Did(c2, <<>>, vl.err)
        ELSE IF ~IsNil(volume.err) THEN Did(c2, <<>>, volume.err)
        ELSE IF ~IsNil(space) THEN Did(c2, <<>>, space)
        ELSE IF ~IsNil(cr) THEN Did(c3, <<>>, cr)
        ELSE Did(c3, <<Line(lunResizedMsg, <<>>)>>, Nil)

lunResizeCmd ==
    /\ pc = "lun resize"
    /\ \E ll \in LunListResults, vl \in VolumeListResults, cr \in CallResults :
        Do(lunResizeBody(args, lv.size, ll, vl, cr))

\* ------------------------------------------------------------- lun clone
\* a validation that counts the arguments only
lunCloneValidateNoName(a) == Valid(verifyArgs(3, a), 0)
\* lunCloneCmd, up to initAndLogin
lunCloneValidate(a) ==
    IF ~IsNil(verifyArgs(3, a)) THEN Valid(verifyArgs(3, a), 0)
    ELSE IF ~lunRegex(a[2]) THEN Valid(errApp(lunInvalidNameMsg, <<>>), 0)
    ELSE Valid(Nil, 0)

\* lunCloneCmd, after `defer logout()'
lunCloneBody(a, ll, vl, cr) ==
    LET srcLunName == a[1]
        dstLunName == a[2]
        volumePath == a[3]
        c1     == <<Call("LunList", <<>>, ll)>>
        srcLun == getLunByName(ll.val, srcLunName)
        c2     == Append(c1, Call("VolumeList", <<>>, vl))
        volume == getVolumeByPath(vl.val, volumePath)
        space  == spaceCheck(volume.val, volumePath, srcLun.val.Size)
        spec   == [Name |-> dstLunName, SrcLunUuid |-> srcLun.val.Uuid,
                   Location |-> volumePath]
        c3     == Append(c2, Call("LunClone", spec, cr))
    IN  IF ~IsNil(ll.err) THEN Did(c1, <<>>, ll.err)
        ELSE IF ~IsNil(srcLun.err) THEN Did(c1, <<>>, srcLun.err)
        ELSE IF ~IsNil(vl.err) THEN Did(c2, <<>>, vl.err)
        ELSE IF ~IsNil(volume.err) THEN Did(c2, <<>>, volume.err)
        ELSE IF ~IsNil(space) THEN Did(c2, <<>>, space)
        ELSE IF ~IsNil(cr) THEN Did(c3, <<>>, cr)
        ELSE Did(c3, <<Line(lunClonedMsg, <<>>)>>, Nil)

lunCloneCmd ==
    /\ pc = "lun clone"
    /\ \E ll \in LunListResults, vl \in VolumeListResults, cr \in CallResults :
        Do(lunCloneBody(args, ll, vl, cr))

\* ------------------------------------------------------------- target create
targetCreateValidate(a) == Valid(verifyArgs(2, a), 0)

\* a `target create' that reports success whatever TargetCreate returned
targetCreateBodyAlwaysReports(a, cr) ==
    LET spec == [Name |-> a[1], Iqn |-> a[2]]
        c1   == <<Call("TargetCreate", spec, cr)>>
    IN  Did(c1, <<Line(targetCreatedMsg, <<>>)>>, cr)

\* targetCreateCmd, after `defer logout()'
targetCreateBody(a, cr) ==
    LET spec == [Name |-> a[1], Iqn |-> a[2]]
        c1   == <<Call("TargetCreate", spec, cr)>>
    IN  IF ~IsNil(cr) THEN Did(c1, <<>>, cr)
        ELSE Did(c1, <<Line(targetCreatedMsg, <<>>)>>, Nil)

targetCreateCmd ==
    /\ pc = "target create"
    /\ \E cr \in CallResults : Do(targetCreateBody(args, cr))

\* ------------------------------------------------------------- lun delete
lunDeleteValidate(a) == Valid(verifyArgs(1, a), 0)

\* a body that called scanLine once, on the bytes of `in'
DidRead(c, o, e, bytes) == [calls |-> c, out |-> o, err |-> e, input |-> bytes, reads |-> 1]

\* a loop without the break: a target once for each of its entries of the LUN
RECURSIVE mappedTargetsPerEntry(_, _)
mappedTargetsPerEntry(targets, uuid) ==
    IF targets = <<>> THEN <<>>
    ELSE LET target == Head(targets)
             hits   == SelectSeq(target.MappedLuns, LAMBDA m : m = uuid)
         IN  [i \in 1..Len(hits) |-> <<target.Name, Len(target.ConnectedSessions) > 0>>]
             \o mappedTargetsPerEntry(Tail(targets), uuid)
\* the targets mapped to the LUN, as the confirmation shows them: the name
\* and whether " (connected)" follows it
RECURSIVE mappedTargetsOf(_, _)
mappedTargetsOf(targets, uuid) ==
    IF targets = <<>> THEN <<>>
    ELSE LET target == Head(targets)
             mapped == \E i \in 1..Len(target.MappedLuns) : target.MappedLuns[i] = uuid
         IN  (IF mapped THEN <<<<target.Name, Len(target.ConnectedSessions) > 0>>>>
              ELSE <<>>)
             \o mappedTargetsOf(Tail(targets), uuid)

\* a comparison that takes an empty line for the name
mismatchUnlessEmpty(name, verify) == name # verify /\ verify # <<>>
\* if name != verify
mismatch(name, verify) == name # verify

\* lunDeleteCmd, after `defer logout()': bytes is what `in' holds
lunDeleteBody(a, f, ll, tl, bytes, cr) ==
    LET name   == a[1]
        c1     == <<Call("LunList", <<>>, ll)>>
        lun    == getLunByName(ll.val, name)
        c2     == IF f.skip THEN c1 ELSE Append(c1, Call("TargetList", <<>>, tl))
        mappedTargets == mappedTargetsOf(tl.val, lun.val.Uuid)
        ask    == <<Line(lunDeleteSureMsg, <<>>)>>
                  \o (IF Len(mappedTargets) > 0
                      THEN <<Line(lunDeleteMappedMsg, <<mappedTargets>>)>> ELSE <<>>)
                  \o <<Line(lunDeleteEnterMsg, <<name>>)>>
        verify == scanLine(bytes)
        o2     == IF f.skip THEN <<>> ELSE ask
        c3     == Append(c2, Call("LunDelete", lun.val.Uuid, cr))
        done   == IF ~IsNil(cr) THEN [calls |-> c3, out |-> o2, err |-> cr]
                  ELSE [calls |-> c3, out |-> Append(o2, Line(lunDeletedMsg, <<>>)),
                        err |-> Nil]
    IN  IF ~IsNil(ll.err) THEN Did(c1, <<>>, ll.err)
        ELSE IF ~IsNil(lun.err) THEN Did(c1, <<>>, lun.err)
        ELSE IF f.skip THEN Did(done.calls, done.out, done.err)
        ELSE IF ~IsNil(tl.err) THEN Did(c2, <<>>, tl.err)
        ELSE IF mismatch(name, verify)
        THEN DidRead(c2, Append(ask, Line(cancelledMsg, <<>>)), Nil, bytes)
        ELSE DidRead(done.calls, done.out, done.err, bytes)

\* what `in' may hold when a name is asked for: nothing, an empty line, the
\* name with and without its line end, the name and a carriage return,
\* another word, the name and one more letter
InputBytes(name) ==
    {<<>>, <<"\n">>, name, name \o <<"\n">>, name \o <<"\r", "\n">>,
     <<"n", "o", "\n">>, name \o <<"x", "\n">>}

lunDeleteCmd ==
    /\ pc = "lun delete"
    /\ \E ll \in LunListResults, tl \in TargetListResults,
          bytes \in InputBytes(args[1]), cr \in CallResults :
        Do(lunDeleteBody(args, flags, ll, tl, bytes, cr))

\* ------------------------------------------------------------- target delete
targetDeleteValidate(a) == Valid(verifyArgs(1, a), 0)

\* a handler without the session check
neverRefused(target, force) == FALSE
\* if len(target.ConnectedSessions) > 0 { if force {...} else {... return nil} }
refused(target, force) == Len(target.ConnectedSessions) > 0 /\ ~force

\* a prompt that --force skips too, and one that --skip-verify does not skip
confirmsUnlessForced(f) == ~f.skip /\ ~f.force
confirmsAlways(f) == TRUE
\* if !skip { ... }
confirms(f) == ~f.skip

\* targetDeleteCmd, after `defer logout()': bytes is what `in' holds
targetDeleteBody(a, f, tl, bytes, cr) ==
    LET name   == a[1]
        c1     == <<Call("TargetList", <<>>, tl)>>
        target == getTargetByName(tl.val, name)
        o1     == IF Len(target.val.ConnectedSessions) > 0 /\ f.force
                  THEN <<Line(targetForceDeleteMsg, <<>>)>> ELSE <<>>
        ask    == o1 \o <<Line(targetDeleteSureMsg, <<>>),
                          Line(targetDeleteEnterMsg, <<name>>)>>
        verify == scanLine(bytes)
        o2     == IF confirms(f) THEN ask ELSE o1
        c2     == Append(c1, Call("TargetDelete", Itoa(target.val.TargetId), cr))
        done   == IF ~IsNil(cr) THEN [calls |-> c2, out |-> o2, err |-> cr]
                  ELSE [calls |-> c2, out |-> Append(o2, Line(targetDeletedMsg, <<>>)),
                        err |-> Nil]
    IN  IF ~IsNil(tl.err) THEN Did(c1, <<>>, tl.err)
        ELSE IF ~IsNil(target.err) THEN Did(c1, <<>>, target.err)
        ELSE IF refused(target.val, f.force)
        THEN Did(c1, <<Line(targetActiveSessionMsg, <<>>)>>, Nil)
        ELSE IF ~confirms(f) THEN Did(done.calls, done.out, done.err)
        ELSE IF mismatch(name, verify)
        THEN DidRead(c1, Append(ask, Line(cancelledMsg, <<>>)), Nil, bytes)
        ELSE DidRead(done.calls, done.out, done.err, bytes)

targetDeleteCmd ==
    /\ pc = "target delete"
    /\ \E tl \in TargetListResults, bytes \in InputBytes(args[1]), cr \in CallResults :
        Do(targetDeleteBody(args, flags, tl, bytes, cr))

\* ------------------------------------------------------------- inputs
\* host, user and pass present or absent with the default port, and one
\* complete set with --port and --https
GlobalOptions ==
    {[host |-> h, user |-> u, pass |-> p, port |-> defaultPort, https |-> FALSE] :
        h \in {"", "host1"}, u \in {"", "user1"}, p \in {"", "pass1"}}
    \cup {[host |-> "host1", user |-> "user1", pass |-> "pass1", port |-> 1234,
           https |-> TRUE]}

Inv(c, a, f) == [cmd |-> c, args |-> a, flags |-> f]

ListInvocations ==
    {Inv(c, a, NoFlags) : c \in {"volume list", "lun list", "target list"},
                          a \in {<<>>, <<"none">>}}

\* names given to `lun create', `lun clone' and `target create'
NewNames == {<<>>, lunName1, <<"Z", "-">>, <<"l", "_">>, <<"_", "1">>, <<" ">>}

\* the number of gigabytes at which uint64(sizeGB) * gb wraps around
WrapGB == UintMod \div gb

\* size arguments: not a number, a fraction, negative, zero, signed, 1, 5,
\* 10, half the wrap-around count (the sign bit of int64), the wrap-around
\* count and six more, and the first integer beyond int
SizeArgs == {<<"x">>, <<"2", ".", "5">>, <<"-", "5">>, <<"0">>, <<"+", "1">>,
             Itoa(1), Itoa(5), Itoa(10), Itoa(WrapGB \div 2), Itoa(WrapGB),
             Itoa(WrapGB + 6), Itoa(MaxInt + 1)}

VolumePaths == {"/vol1", "/vol2", "/vol3"}

LunCreateInvocations ==
    {Inv("lun create", <<n, v, sz>>, [NoFlags EXCEPT !.thin = t, !.reclaim = r,
                                                    !.syncCache = sc]) :
        n \in NewNames, v \in VolumePaths, sz \in SizeArgs,
        t \in BOOLEAN, r \in BOOLEAN, sc \in BOOLEAN}
    \cup {Inv("lun create", a, [NoFlags EXCEPT !.thin = t, !.reclaim = r]) :
        a \in {<<lunName1, "/vol1">>, <<lunName1, "/vol1", Itoa(5), "none">>},
        t \in BOOLEAN, r \in BOOLEAN}

\* names looked up in the lists: the empty string, l1, l2; "", t1, t2
LunNames == {<<>>, lunName1, lunName2}
TargetNames == {<<>>, targetName1, targetName2}

LunMapInvocations ==
    {Inv("lun map", <<l, t>>, NoFlags) : l \in LunNames, t \in TargetNames}
    \cup {Inv("lun map", a, NoFlags) :
            a \in {<<lunName1>>, <<lunName1, targetName1, "none">>}}

LunResizeInvocations ==
    {Inv("lun resize", <<l, sz>>, NoFlags) : l \in LunNames, sz \in SizeArgs}
    \cup {Inv("lun resize", a, NoFlags) :
            a \in {<<lunName1>>, <<lunName1, Itoa(5), "none">>}}

LunCloneInvocations ==
    {Inv("lun clone", <<l, n, v>>, NoFlags) :
        l \in LunNames, n \in NewNames, v \in VolumePaths}
    \cup {Inv("lun clone", a, NoFlags) :
            a \in {<<lunName1, lunName2>>, <<lunName1, lunName2, "/vol1", "none">>}}

TargetCreateInvocations ==
    {Inv("target create", <<n, "iqn:new">>, NoFlags) : n \in NewNames}
    \cup {Inv("target create", a, NoFlags) :
            a \in {<<targetName1>>, <<targetName1, "iqn:new", "none">>}}

LunDeleteInvocations ==
    {Inv("lun delete", <<l>>, [NoFlags EXCEPT !.skip = sk]) :
        l \in LunNames, sk \in BOOLEAN}
    \cup {Inv("lun delete", a, [NoFlags EXCEPT !.skip = sk]) :
            a \in {<<>>, <<lunName1, "none">>}, sk \in BOOLEAN}

TargetDeleteInvocations ==
    {Inv("target delete", <<t>>, [NoFlags EXCEPT !.force = fo, !.skip = sk]) :
        t \in TargetNames, fo \in BOOLEAN, sk \in BOOLEAN}
    \cup {Inv("target delete", a, [NoFlags EXCEPT !.force = fo, !.skip = sk]) :
            a \in {<<>>, <<targetName1, "none">>}, fo \in BOOLEAN, sk \in BOOLEAN}

Invocations ==
    ListInvocations \cup LunCreateInvocations \cup LunMapInvocations
    \cup LunResizeInvocations \cup LunCloneInvocations \cup TargetCreateInvocations
    \cup LunDeleteInvocations \cup TargetDeleteInvocations

Init ==
    /\ \E i \in Invocations : cmd = i.cmd /\ args = i.args /\ flags = i.flags
    /\ glob \in GlobalOptions
    /\ pc = "Action"
    /\ lv = NoLocals
    /\ calls = <<>>
    /\ out = <<>>
    /\ input = <<>>
    /\ reads = 0
    /\ ret = Nil
    /\ exitCode = -1

\* ------------------------------------------------------------- the handlers' entry
ValidateCmd(c, a, f) ==
    CASE c \in {"volume list", "lun list", "target list"} -> listValidate(a)
      [] c = "lun create" -> lunCreateValidate(a, f)
      [] c = "lun map" -> lunMapValidate(a)
      [] c = "lun resize" -> lunResizeValidate(a)
      [] c = "lun clone" -> lunCloneValidate(a)
      [] c = "target create" -> targetCreateValidate(a)
      [] c = "lun delete" -> lunDeleteValidate(a)
      [] c = "target delete" -> targetDeleteValidate(a)

\* Action, up to the call of initAndLogin
Validate ==
    /\ pc = "Action"
    /\ LET v == ValidateCmd(cmd, args, flags)
       IN  IF IsNil(v.err)
           THEN /\ pc' = "initAndLogin"
                /\ lv' = [lv EXCEPT !.size = v.size]
                /\ ret' = ret
           ELSE /\ pc' = "main"
                /\ ret' = v.err
                /\ lv' = lv
    /\ UNCHANGED <<cmd, args, flags, glob, calls, out, input, reads, exitCode>>

\* ------------------------------------------------------------- specification
Next ==
    \/ Validate
    \/ initAndLogin
    \/ volumeListCmd
    \/ lunListCmd
    \/ targetListCmd
    \/ lunCreateCmd
    \/ lunMapCmd
    \/ lunResizeCmd
    \/ lunCloneCmd
    \/ targetCreateCmd
    \/ lunDeleteCmd
    \/ targetDeleteCmd
    \/ logout
    \/ main

Spec == Init /\ [][Next]_vars

\* ------------------------------------------------------------- the functions, called alone
\* One call of a function of the program on arguments of its domain, in the
\* same variables: cmd is the function, args are its arguments, ret is what
\* it returns, pc goes from "call" to "return".
FsTypes == {"ext4", "btrfs", "zfs", "ext3", "EXT4", ""}
ByteCounts == 0..MaxByteCount

InitCall ==
    /\ \/ \E fs \in FsTypes, thin \in BOOLEAN : cmd = "GetLunType" /\ args = <<fs, thin>>
       \/ \E size \in ByteCounts : cmd = "readableByteSize" /\ args = <<size>>
    /\ flags = NoFlags
    /\ glob = [host |-> "", user |-> "", pass |-> "", port |-> defaultPort, https |-> FALSE]
    /\ pc = "call"
    /\ lv = NoLocals
    /\ calls = <<>>
    /\ out = <<>>
    /\ input = <<>>
    /\ reads = 0
    /\ ret = Nil
    /\ exitCode = -1

callGetLunType ==
    /\ pc = "call" /\ cmd = "GetLunType"
    /\ ret' = GetLunType(args[1], args[2])
    /\ pc' = "return"
    /\ UNCHANGED <<cmd, args, flags, glob, lv, calls, out, input, reads, exitCode>>

callReadableByteSize ==
    /\ pc = "call" /\ cmd = "readableByteSize"
    /\ ret' = readableByteSize(args[1])
    /\ pc' = "return"
    /\ UNCHANGED <<cmd, args, flags, glob, lv, calls, out, input, reads, exitCode>>

NextCall ==
    \/ callGetLunType
    \/ callReadableByteSize

SpecCall == InitCall /\ [][NextCall]_vars

\* ------------------------------------------------------------- reading the state
\* the positions of the calls of one method, and whether there is one
CallsOf(op) == {i \in 1..Len(calls) : calls[i][1] = op}
Called(op) == CallsOf(op) # {}
\* the argument and the result of the first call of a method
ArgOf(op) == calls[Min(CallsOf(op))][2]
ResultOf(op) == calls[Min(CallsOf(op))][3]
\* a list call was made and returned a list
Listed(op) == Called(op) /\ IsNil(ResultOf(op).err)

LoggedIn == Called("Login") /\ IsNil(ResultOf("Login"))
\* the handler has returned, and the process has exited
Returned == pc \in {"main", "exit"}
Exited == pc = "exit"

\* the lines of one format in the output
Wrote(fmt) == \E i \in 1..Len(out) : out[i][1] = fmt
\* The lines the handler itself wrote: the output without the password
\* prompt of initAndLogin, the notice of a failed Logout and the error line
\* of main.
SessionFormats == {enterPasswordMsg, "\n", logoutFailedMsg, mainErrorMsg, mainUnknownErrorMsg}
IsHandlerLine(l) == l[1] \notin SessionFormats
HandlerOut == SelectSeq(out, IsHandlerLine)
PromptFormats == {lunDeleteSureMsg, lunDeleteMappedMsg, lunDeleteEnterMsg,
                  targetDeleteSureMsg, targetDeleteEnterMsg}
Prompted == \E i \in 1..Len(out) : out[i][1] \in PromptFormats

\* the entity `target delete' and `lun delete' resolved from the list
TargetResolved ==
    /\ cmd = "target delete"
    /\ Listed("TargetList")
    /\ IsNil(getTargetByName(ResultOf("TargetList").val, args[1]).err)
TheTarget == getTargetByName(ResultOf("TargetList").val, args[1]).val
LunResolved ==
    /\ cmd = "lun delete"
    /\ Listed("LunList")
    /\ IsNil(getLunByName(ResultOf("LunList").val, args[1]).err)
TheLun == getLunByName(ResultOf("LunList").val, args[1]).val
HasSessions == Len(TheTarget.ConnectedSessions) > 0

\* ------------------------------------------------------------- claims

\* C1: `target delete' on a target with at least one connected session and
\* without --force never calls TargetDelete, whatever --skip-verify is and
\* whatever the input holds: the handler writes the active-sessions message
\* and nothing else, so no confirmation prompt, and scanLine is never called.
C1_RefusesActiveSessions ==
    (TargetResolved /\ HasSessions /\ ~flags.force) =>
        /\ ~Called("TargetDelete")
        /\ reads = 0
        /\ ~Prompted
        /\ HandlerOut = <<Line(targetActiveSessionMsg, <<>>)>>
        /\ IsNil(ret)

C1_Witness ==
    /\ TargetResolved /\ HasSessions /\ ~flags.force /\ flags.skip
    /\ Exited /\ exitCode = 0
    /\ out = <<Line(targetActiveSessionMsg, <<>>)>>

\* the errors of the checks made before initAndLogin
ValidationFormats == {notEnoughArgsMsg, lunReclaimThinMsg, lunInvalidNameMsg, lunInvalidSizeMsg}

\* C2: `target delete --force' on a target with connected sessions: without
\* --skip-verify the prompt is shown and TargetDelete is called exactly when
\* the line read equals the target name; with --skip-verify TargetDelete is
\* called without a prompt.  All four combinations of the two flags pass
\* the handler's validation.
C2_ForceKeepsPrompt ==
    /\ (TargetResolved /\ HasSessions /\ flags.force /\ ~flags.skip) =>
            /\ Wrote(targetDeleteEnterMsg)
            /\ reads = 1
            /\ Called("TargetDelete") <=> (scanLine(input) = args[1])
    /\ (TargetResolved /\ HasSessions /\ flags.force /\ flags.skip) =>
            /\ Called("TargetDelete")
            /\ ~Prompted
            /\ reads = 0
    /\ (cmd = "target delete" /\ Len(args) = 1 /\ pc # "Action") =>
            ret[2] \notin ValidationFormats

C2_Witness ==
    /\ TargetResolved /\ HasSessions /\ flags.force /\ ~flags.skip
    /\ Exited
    /\ reads = 1 /\ scanLine(input) # args[1] /\ input # <<>>
    /\ ~Called("TargetDelete")

\* the two deleting commands and their remote call
DeleteOp == IF cmd = "lun delete" THEN "LunDelete" ELSE "TargetDelete"
IsDelete == cmd \in {"lun delete", "target delete"}

\* C3: `lun delete' (and `target delete') without --skip-verify calls
\* LunDelete (TargetDelete) exactly when the line read at the prompt equals
\* the name; on any other line it writes "Cancelled", calls no delete and
\* returns nil, so the process exits with 0.
C3_DeleteOnlyOnExactName ==
    (IsDelete /\ ~flags.skip) =>
        /\ Called(DeleteOp) => reads = 1
        /\ reads = 1 => (Called(DeleteOp) <=> (scanLine(input) = args[1]))
        /\ (reads = 1 /\ scanLine(input) # args[1]) =>
                /\ Wrote(cancelledMsg)
                /\ IsNil(ret)
                /\ Exited => exitCode = 0

C3_Witness ==
    /\ cmd = "lun delete" /\ ~flags.skip
    /\ reads = 1 /\ input = lunName1 \o <<"x", "\n">> /\ args[1] = lunName1
    /\ Wrote(cancelledMsg) /\ ~Called("LunDelete")
    /\ Exited /\ exitCode = 0

\* the prompt read an empty line, or nothing at all
EmptyRead == reads = 1 /\ (input = <<>> \/ input = <<"\n">>)

\* C4: in `lun delete' and `target delete' without --skip-verify, an empty
\* line or the end of the input at the prompt counts as a line that does not
\* match, whatever the name argument is: "Cancelled" is written, no delete
\* is called and the handler returns nil.
C4_EmptyReadCancels ==
    (IsDelete /\ ~flags.skip /\ EmptyRead) =>
        /\ Wrote(cancelledMsg)
        /\ ~Called(DeleteOp)
        /\ IsNil(ret)

\* the entity to delete was found and is not refused; what the handler
\* writes when the delete call returns nil, and when it returns an error
Resolved == LunResolved \/ (TargetResolved /\ ~(HasSessions /\ ~flags.force))
SuccessOut ==
    IF cmd = "lun delete" THEN <<Line(lunDeletedMsg, <<>>)>>
    ELSE (IF HasSessions THEN <<Line(targetForceDeleteMsg, <<>>)>> ELSE <<>>)
         \o <<Line(targetDeletedMsg, <<>>)>>
FailureOut ==
    IF cmd = "target delete" /\ HasSessions THEN <<Line(targetForceDeleteMsg, <<>>)>>
    ELSE <<>>

\* C5: with --skip-verify, `lun delete' and `target delete' show no prompt
\* and never call scanLine; once the name is resolved (and the target is
\* not refused for its sessions) the delete call is made and the handler's
\* output is exactly the success message, after the force-delete notice
\* when a target with sessions is deleted with --force.
C5_SkipVerifyOriginal ==
    (IsDelete /\ flags.skip) =>
        /\ ~Prompted
        /\ reads = 0
        /\ Resolved => (Called(DeleteOp) /\ HandlerOut = SuccessOut)

\* C5, by the outcome of the delete call: with --skip-verify there is no
\* prompt and no read; the delete call is made, and the output is exactly the
\* success message (after the notice) when that call returns nil; when it
\* returns an error the handler returns that error and writes no success
\* message.
C5_SkipVerify ==
    (IsDelete /\ flags.skip) =>
        /\ ~Prompted
        /\ reads = 0
        /\ Resolved =>
            /\ Called(DeleteOp)
            /\ IsNil(ResultOf(DeleteOp)) => (HandlerOut = SuccessOut /\ IsNil(ret))
            /\ ~IsNil(ResultOf(DeleteOp)) =>
                    (HandlerOut = FailureOut /\ ret = ResultOf(DeleteOp))

C5_Witness ==
    /\ cmd = "target delete" /\ flags.skip /\ flags.force
    /\ TargetResolved /\ HasSessions
    /\ Called("TargetDelete") /\ IsNil(ResultOf("TargetDelete"))
    /\ Exited
    /\ out = <<Line(targetForceDeleteMsg, <<>>), Line(targetDeletedMsg, <<>>)>>

\* the number of Logout calls made
Logouts == Cardinality(CallsOf("Logout"))

\* C6: once Login has succeeded, Logout is called exactly once before the
\* handler returns, whatever the handler's body returned (nil, a not-found
\* error, not enough space, cannot decrease, a failed remote call, an
\* unparsable Free field, the active-sessions refusal, a cancelled prompt),
\* and it is the last call made.
C6_LogoutExactlyOnce ==
    LoggedIn =>
        /\ Logouts <= 1
        /\ Returned => (Logouts = 1 /\ calls[Len(calls)][1] = "Logout")

C6_Witness ==
    /\ Exited /\ LoggedIn
    /\ ret = otherErr(parseUintError)
    /\ Logouts = 1

\* what the commands expect of their input
ExpectedArgCount ==
    CASE cmd \in {"volume list", "lun list", "target list"} -> 0
      [] cmd \in {"lun delete", "target delete"} -> 1
      [] cmd \in {"lun map", "lun resize", "target create"} -> 2
      [] cmd \in {"lun create", "lun clone"} -> 3
NameChars == Lower \cup Upper \cup Digits \cup {"-"}
MatchesNamePattern(s) == s # <<>> /\ \A i \in 1..Len(s) : s[i] \in NameChars
\* not a decimal numeral (with or without a plus sign) of a value above 0
NotPositiveInteger(s) ==
    LET body == IF s # <<>> /\ Head(s) = "+" THEN Tail(s) ELSE s
    IN  ~(AllDigits(body) /\ \E i \in 1..Len(body) : body[i] # "0")
InvalidInput ==
    \/ Len(args) # ExpectedArgCount
    \/ cmd = "lun create" /\ flags.reclaim /\ ~flags.thin
    \/ cmd = "lun create" /\ (~MatchesNamePattern(args[1]) \/ NotPositiveInteger(args[3]))
    \/ cmd = "lun resize" /\ NotPositiveInteger(args[2])
    \/ cmd = "lun clone" /\ ~MatchesNamePattern(args[2])

\* C7: an invocation whose input fails validation (a wrong number of
\* arguments, --reclaim without --thin, a name that does not match the
\* pattern, a size that is not a positive integer) makes no call on the
\* client at all: no Init, Login, Logout, list or mutating call.  It returns
\* one of the four validation errors, and whoever returns one of them has
\* made no call.
C7_ValidationBeforeAnyCall ==
    /\ InvalidInput =>
            /\ calls = <<>>
            /\ pc \notin {"initAndLogin", "logout"}
            /\ Returned => (IsErrApp(ret) /\ ret[2] \in ValidationFormats)
    /\ ret[2] \in ValidationFormats => calls = <<>>

C7_Witness ==
    /\ cmd = "lun clone" /\ Len(args) = 3 /\ ~MatchesNamePattern(args[2])
    /\ glob.host # "" /\ glob.user # "" /\ glob.pass # ""
    /\ Exited /\ exitCode = 1
    /\ ret = errApp(lunInvalidNameMsg, <<>>)
    /\ calls = <<>>

\* the bytes asked for and the volume they are checked against
RequestedBytes(sizeStr) == Atoi(sizeStr).val * gb
VolumeAt(path) == getVolumeByPath(ResultOf("VolumeList").val, path)
\* the volume list was fetched, holds the path, and its Free field is a number
SpaceChecked(path) ==
    /\ Listed("VolumeList")
    /\ IsNil(VolumeAt(path).err)
    /\ ParseUint(VolumeAt(path).val.Free).ok
SpaceRule(required, path, op) ==
    LET free == ParseUint(VolumeAt(path).val.Free).val
    IN  /\ required > free =>
            /\ ~Called(op)
            /\ ret = errApp(volumeNotEnoughSpaceMsg, <<path, free \div gb>>)
        /\ required <= free => Called(op)
SourceLun == getLunByName(ResultOf("LunList").val, args[1])

\* C8: a mutating LUN call is never made for more bytes than the volume has
\* free.  The bytes required are the requested gigabytes times 2^30 for
\* `lun create', that product minus the LUN's size for `lun resize', and the
\* source LUN's size for `lun clone'.  When they exceed the Free bytes of the
\* volume the call is not made and the error names the path and
\* floor(free / 2^30); when they do not exceed them the call is made.
C8_NeverBeyondFreeSpace ==
    /\ (cmd = "lun create" /\ SpaceChecked(args[2])) =>
            SpaceRule(RequestedBytes(args[3]), args[2], "LunCreate")
    /\ (cmd = "lun resize" /\ Listed("LunList") /\ IsNil(SourceLun.err)
            /\ SpaceChecked(SourceLun.val.Location)) =>
            SpaceRule(RequestedBytes(args[2]) - SourceLun.val.Size,
                      SourceLun.val.Location, "LunUpdate")
    /\ (cmd = "lun clone" /\ Listed("LunList") /\ IsNil(SourceLun.err)
            /\ SpaceChecked(args[3])) =>
            SpaceRule(SourceLun.val.Size, args[3], "LunClone")

\* the LUN to resize was found
ResizeResolved == cmd = "lun resize" /\ Listed("LunList") /\ IsNil(SourceLun.err)

\* C9: `lun resize' of a LUN that was found, to a size of at most the LUN's
\* size, returns the cannot-decrease error without asking for the volumes
\* and without calling LunUpdate; and every LunUpdate that is called carries
\* a NewSize above the size of the LUN it names.
C9_ResizeOnlyGrows ==
    ResizeResolved =>
        /\ RequestedBytes(args[2]) <= SourceLun.val.Size =>
                /\ ret = errApp(lunCannotDecreaseSizeMsg, <<>>)
                /\ ~Called("LunUpdate")
                /\ ~Called("VolumeList")
        /\ Called("LunUpdate") =>
                /\ ArgOf("LunUpdate").Uuid = SourceLun.val.Uuid
                /\ ArgOf("LunUpdate").NewSize > SourceLun.val.Size

\* a resize to exactly the LUN's size
C9_Witness ==
    /\ ResizeResolved /\ Exited
    /\ SourceLun.val.Size > 0
    /\ RequestedBytes(args[2]) = SourceLun.val.Size
    /\ ret = errApp(lunCannotDecreaseSizeMsg, <<>>)

\* the commands that name a new LUN, past the checks made before the name's
NamesNewLun ==
    \/ cmd = "lun create" /\ Len(args) = 3 /\ ~(flags.reclaim /\ ~flags.thin)
    \/ cmd = "lun clone" /\ Len(args) = 3
NewLunName == IF cmd = "lun create" THEN args[1] ELSE args[2]

\* C10: `lun create' and `lun clone', given the right number of arguments
\* (and no --reclaim without --thin), return the invalid-name error and make
\* no call when the name of the new LUN is not one or more of a-z, A-Z, 0-9
\* and `-'; a LunCreate or LunClone request never carries such a name; and a
\* name of that form never gets the invalid-name error.
C10_NamePattern ==
    /\ (NamesNewLun /\ ~MatchesNamePattern(NewLunName) /\ pc # "Action") =>
            /\ ret = errApp(lunInvalidNameMsg, <<>>)
            /\ calls = <<>>
    /\ (NamesNewLun /\ MatchesNamePattern(NewLunName)) =>
            ret # errApp(lunInvalidNameMsg, <<>>)
    /\ \A i \in 1..Len(calls) :
            calls[i][1] \in {"LunCreate", "LunClone"} => MatchesNamePattern(calls[i][2].Name)

\* a name with an underscore is turned away, with everything else in order
C10_Witness ==
    /\ cmd = "lun create" /\ NamesNewLun
    /\ "_" \in {NewLunName[i] : i \in 1..Len(NewLunName)}
    /\ ~NotPositiveInteger(args[3])
    /\ Exited /\ ret = errApp(lunInvalidNameMsg, <<>>)
    /\ calls = <<>>

\* C11: `target create' with a name that is not one or more of a-z, A-Z,
\* 0-9 and `-' never sends a TargetCreate request and never reports a created
\* target.
C11_TargetNamePattern ==
    (cmd = "target create" /\ Len(args) = 2 /\ ~MatchesNamePattern(args[1])) =>
        /\ ~Called("TargetCreate")
        /\ ~Wrote(targetCreatedMsg)

\* the size argument of `lun create' and `lun resize', once the checks made
\* before it have passed
TakesSize ==
    \/ cmd = "lun create" /\ Len(args) = 3 /\ ~(flags.reclaim /\ ~flags.thin)
            /\ MatchesNamePattern(args[1])
    \/ cmd = "lun resize" /\ Len(args) = 2
SizeArg == IF cmd = "lun create" THEN args[3] ELSE args[2]

\* C12: in `lun create' and `lun resize' a size that is not a positive
\* integer (not a number, zero, negative, a fraction) gets the invalid-size
\* error, a size that is accepted is a positive integer N, and the request
\* carries exactly N * 2^30 bytes: LunCreateSpec.Size, signed, and
\* LunUpdateSpec.NewSize, unsigned, with no wrap-around and no change of sign.
C12_SizeInBytes ==
    TakesSize =>
        /\ (NotPositiveInteger(SizeArg) /\ pc # "Action") =>
                ret = errApp(lunInvalidSizeMsg, <<>>)
        /\ LoggedIn => ~NotPositiveInteger(SizeArg)
        /\ Called("LunCreate") => ArgOf("LunCreate").Size = RequestedBytes(SizeArg)
        /\ Called("LunUpdate") => ArgOf("LunUpdate").NewSize = RequestedBytes(SizeArg)

\* `lun create --reclaim' without --thin
ReclaimWithoutThin == cmd = "lun create" /\ flags.reclaim /\ ~flags.thin

\* C13: every `lun create' with --reclaim and without --thin returns the
\* reclaim-requires-thin error, whatever the other flags are and whatever
\* positional arguments are given, however many.
C13_ReclaimNeedsThinOriginal ==
    (ReclaimWithoutThin /\ pc # "Action") =>
        ret = errApp(lunReclaimThinMsg, <<>>)

\* C13, for three positional arguments: `lun create' with --reclaim and
\* without --thin returns the reclaim-requires-thin error and makes no call,
\* whatever --sync-cache is and whatever the three arguments are; with
\* another number of arguments the argument-count error comes first.
C13_ReclaimNeedsThin ==
    (ReclaimWithoutThin /\ pc # "Action") =>
        /\ calls = <<>>
        /\ Len(args) = 3 => ret = errApp(lunReclaimThinMsg, <<>>)
        /\ Len(args) # 3 => ret = errApp(notEnoughArgsMsg, <<3, Len(args)>>)

\* --reclaim --sync-cache with a name and a size that are both invalid
C13_Witness ==
    /\ ReclaimWithoutThin /\ flags.syncCache
    /\ Len(args) = 3 /\ ~MatchesNamePattern(args[1]) /\ NotPositiveInteger(args[3])
    /\ Exited /\ exitCode = 1
    /\ ret = errApp(lunReclaimThinMsg, <<>>)

\* the type codes of the four supported pairs, "" for any other filesystem
TypeTable(fsType, thin) ==
    IF <<fsType, thin>> = <<"ext4", FALSE>> THEN "FILE"
    ELSE IF <<fsType, thin>> = <<"ext4", TRUE>> THEN "ADV"
    ELSE IF <<fsType, thin>> = <<"btrfs", FALSE>> THEN "BLUN_THICK"
    ELSE IF <<fsType, thin>> = <<"btrfs", TRUE>> THEN "BLUN"
    ELSE ""
\* the device attributes that the flags ask for, in the order of the request
AttribsFor(f) ==
    (IF f.reclaim THEN <<[DevAttrib |-> "emulate_tpu", Enable |-> 1]>> ELSE <<>>)
    \o (IF f.syncCache
        THEN <<[DevAttrib |-> "emulate_fua_write", Enable |-> 1],
               [DevAttrib |-> "emulate_sync_cache", Enable |-> 1]>>
        ELSE <<>>)
\* `lun create' has run its body and returned nil
CreateSucceeded ==
    cmd = "lun create" /\ LoggedIn /\ pc \in {"logout", "main", "exit"} /\ IsNil(ret)

\* C14: a `lun create' that succeeds has sent exactly one LunCreate request:
\* Name and Location are the first two arguments, Size is the requested
\* gigabytes times 2^30, Type is the table's code for the filesystem of the
\* volume found at the path and --thin, DevAttribs are space reclamation
\* iff --reclaim, then FUA write and sync cache iff --sync-cache; and the
\* handler has written the created-LUN message and nothing else.
C14_CreateRequest ==
    CreateSucceeded =>
        /\ Cardinality(CallsOf("LunCreate")) = 1
        /\ ArgOf("LunCreate") =
                [Name |-> args[1], Location |-> args[2],
                 Size |-> RequestedBytes(args[3]),
                 Type |-> TypeTable(VolumeAt(args[2]).val.FsType, flags.thin),
                 DevAttribs |-> AttribsFor(flags)]
        /\ HandlerOut = <<Line(lunCreatedMsg, <<>>)>>

\* C15: GetLunType is the fixed table: (ext4, thick) gives FILE, (ext4, thin)
\* ADV, (btrfs, thick) BLUN_THICK, (btrfs, thin) BLUN, and every other
\* filesystem gives the empty code, thin or not.
C15_LunTypeTable ==
    (cmd = "GetLunType" /\ pc = "return") =>
        /\ ret = TypeTable(args[1], args[2])
        /\ args = <<"ext4", FALSE>> => ret = "FILE"
        /\ args = <<"ext4", TRUE>> => ret = "ADV"
        /\ args = <<"btrfs", FALSE>> => ret = "BLUN_THICK"
        /\ args = <<"btrfs", TRUE>> => ret = "BLUN"
        /\ args[1] \notin {"ext4", "btrfs"} => ret = ""

\* a filesystem outside the table, thin
C15_Witness ==
    /\ cmd = "GetLunType" /\ pc = "return"
    /\ args = <<"zfs", TRUE>>
    /\ ret = ""

\* the index of the largest unit that is at most the size, for a size above 0
UnitIndex(size) ==
    CHOOSE k \in 0..ByteBits : UnitBase ^ k <= size /\ size < UnitBase ^ (k + 1)

\* C20: readableByteSize renders 0 as "0.00 B"; any other byte count gets
\* the largest unit of B, KiB, MiB, GiB, TiB, PiB, EiB that is at most the
\* count, the unit of index floor(log_1024(size)), an index within 0..6;
\* and the power 1024^k, for k from 0 to 6, is rendered "1.00" in unit k.
C20_ReadableUnit ==
    (cmd = "readableByteSize" /\ pc = "return") =>
        LET size == args[1]
        IN  /\ size = 0 => ret = <<"0", ".", "0", "0", " ", "B">>
            /\ size > 0 =>
                /\ UnitIndex(size) \in 0..6
                /\ ret[Len(ret)] = units[UnitIndex(size) + 1]
            /\ \A k \in 0..6 :
                size = UnitBase ^ k => ret = <<"1", ".", "0", "0", " ", units[k + 1]>>

\* the errors of the lookups by path and by name
LookupFormats == {volumeNotFoundMsg, lunNotFoundMsg, targetNotFoundMsg}
\* the process has exited after a failure of a validation, of a lookup, or of
\* a call on the client after the login
KnownFailure ==
    /\ Exited
    /\ \/ ret[2] \in ValidationFormats
       \/ ret[2] \in LookupFormats
       \/ LoggedIn /\ ret[2] = remoteError
LastLine == out[Len(out)]

\* C16: a command that returns an error exits with a status other than 0,
\* and the failure of a validation, of a lookup or of a remote call (a list
\* call or a mutating call) is reported in a last line "Error: <message>",
\* never as "Unknown error: <message>".
C16_ErrorLine ==
    /\ (Exited /\ ~IsNil(ret)) => exitCode # 0
    /\ KnownFailure =>
        /\ LastLine = Line(mainErrorMsg, <<ret[2], ret[3]>>)
        /\ ~Wrote(mainUnknownErrorMsg)

\* what the last call, a Logout, returned
LogoutFailed == Called("Logout") /\ ~IsNil(ResultOf("Logout"))

\* C17: the deferred logout leaves the result of the handler as it is and
\* writes nothing but the notice of its own failure; so a command whose
\* handler returned nil exits with 0 and without an error line even when
\* Logout fails, with the failure printed, and a command whose handler
\* returned an error exits with 1 on that error whatever Logout returns.
C17_LogoutKeepsResult ==
    /\ [][pc = "logout" =>
            /\ ret' = ret
            /\ out' = IF IsNil(calls'[Len(calls')][3]) THEN out
                      ELSE Append(out, Line(logoutFailedMsg, <<remoteError>>))]_vars
    /\ [](Exited /\ Called("Logout") =>
            /\ LogoutFailed => Wrote(logoutFailedMsg)
            /\ IsNil(ret) =>
                    /\ exitCode = 0
                    /\ ~Wrote(mainErrorMsg) /\ ~Wrote(mainUnknownErrorMsg)
            /\ ~IsNil(ret) =>
                    /\ exitCode = 1
                    /\ LastLine[2] = <<ret[2], ret[3]>>)

\* a LUN is created, the Logout fails, and the process exits with 0
C17_Witness ==
    /\ Exited /\ exitCode = 0 /\ IsNil(ret)
    /\ LogoutFailed
    /\ out[Len(out) - 1] = Line(lunCreatedMsg, <<>>)
    /\ LastLine = Line(logoutFailedMsg, <<remoteError>>)

\* C18: each command expects one number of positional arguments (the list
\* commands 0, the delete commands 1, `lun map', `lun resize' and `target
\* create' 2, `lun create' and `lun clone' 3).  With any other number it
\* returns the error naming the expected and the given number, before any
\* other check and before any call, and exits with 1 on that error; with
\* that number it never returns this error.
C18_ArgumentCount ==
    /\ (Len(args) # ExpectedArgCount /\ pc # "Action") =>
            /\ ret = errApp(notEnoughArgsMsg, <<ExpectedArgCount, Len(args)>>)
            /\ calls = <<>>
            /\ pc \in {"main", "exit"}
            /\ Exited => (exitCode = 1 /\ out = <<Line(mainErrorMsg, <<ret[2], ret[3]>>)>>)
    /\ Len(args) = ExpectedArgCount => ret[2] # notEnoughArgsMsg

\* two arguments, and --reclaim without --thin, for `lun create'
C18_Witness ==
    /\ cmd = "lun create" /\ Len(args) = 2 /\ flags.reclaim /\ ~flags.thin
    /\ Exited /\ exitCode = 1
    /\ ret = errApp(notEnoughArgsMsg, <<3, 2>>)

\* initAndLogin has run, the checks made before it having passed
SessionAttempted == pc \notin {"Action", "initAndLogin"} /\ ret[2] \notin ValidationFormats
\* the global flags that are missing, in the order host, user, pass; pass is
\* missing only when the standard input is no terminal
MissingGlobals ==
    (IF glob.host = "" THEN <<"host">> ELSE <<>>)
    \o (IF glob.user = "" THEN <<"user">> ELSE <<>>)
    \o (IF glob.pass = "" /\ ~lv.isTerminal THEN <<"pass">> ELSE <<>>)

\* C19: a command that passed its validation and misses host, user or, with
\* no terminal, pass returns the error that lists exactly the missing flags
\* in the order host, user, pass, and makes no call: no Init, no Login, no
\* Logout.  With all of them present (or the password typed at the terminal)
\* the first call is Init with the host, the port, the user, the password
\* and the https flag that were supplied, and the second is Login.
C19_GlobalFlags ==
    SessionAttempted =>
        /\ MissingGlobals # <<>> =>
                /\ ret = errApp(missingGlobalArgsMsg, <<MissingGlobals>>)
                /\ calls = <<>>
                /\ pc \in {"main", "exit"}
                /\ ~Wrote(enterPasswordMsg)
        /\ (MissingGlobals = <<>> /\ ret # otherErr(readPassError)) =>
                /\ Len(calls) >= 2
                /\ calls[1] = <<"Init", <<glob.host, glob.port, glob.user, glob.pass,
                                          glob.https>>, Nil>>
                /\ calls[2][1] = "Login"
                /\ Cardinality(CallsOf("Init")) = 1
                /\ ret[2] # missingGlobalArgsMsg
        /\ calls # <<>> => MissingGlobals = <<>>

\* no host and no pass, and no terminal to ask for the password
C19_Witness ==
    /\ SessionAttempted /\ Exited /\ exitCode = 1
    /\ glob.host = "" /\ glob.user # "" /\ glob.pass = "" /\ ~lv.isTerminal
    /\ ret = errApp(missingGlobalArgsMsg, <<<<"host", "pass">>>>)
    /\ calls = <<>>

\* the calls that change the appliance
MutatingOps == {"LunCreate", "LunUpdate", "LunClone", "LunDelete", "LunMapTarget",
                "TargetCreate", "TargetDelete"}
Mutated == \E op \in MutatingOps : Called(op)
\* the lists that came back, and the places of the entries with a key
ListedLuns == ResultOf("LunList").val
ListedTargets == ResultOf("TargetList").val
ListedVolumes == ResultOf("VolumeList").val
LunsNamed(name) == {i \in 1..Len(ListedLuns) : ListedLuns[i].Name = name}
TargetsNamed(name) == {i \in 1..Len(ListedTargets) : ListedTargets[i].Name = name}
VolumesAt(path) == {i \in 1..Len(ListedVolumes) : ListedVolumes[i].Path = path}
FirstLun(name) == ListedLuns[Min(LunsNamed(name))]
FirstTarget(name) == ListedTargets[Min(TargetsNamed(name))]
FirstVolume(path) == ListedVolumes[Min(VolumesAt(path))]
\* the commands that look up a LUN by their first argument, a target by
\* name, and the path of the volume that a command looks up
ResolvesLun == cmd \in {"lun map", "lun resize", "lun clone", "lun delete"}
ResolvesTarget == cmd \in {"lun map", "target delete"}
TargetKey == IF cmd = "lun map" THEN args[2] ELSE args[1]
ResolvesVolume == cmd \in {"lun create", "lun resize", "lun clone"}
VolumeKey ==
    IF cmd = "lun create" THEN args[2]
    ELSE IF cmd = "lun clone" THEN args[3]
    ELSE FirstLun(args[1]).Location
\* the identifier of the LUN in the mutating call of a command
LunIdSent ==
    CASE cmd = "lun map" -> ArgOf("LunMapTarget")[2]
      [] cmd = "lun resize" -> ArgOf("LunUpdate").Uuid
      [] cmd = "lun clone" -> ArgOf("LunClone").SrcLunUuid
      [] cmd = "lun delete" -> ArgOf("LunDelete")
\* the decimal numeral of a target id
Decimal(n) == IF n < 10 THEN <<DigitChar[n + 1]>> ELSE Itoa(n)
TargetIdSent ==
    IF cmd = "lun map" THEN ArgOf("LunMapTarget")[1][1] ELSE ArgOf("TargetDelete")

\* C21: a volume is looked up by its path, a LUN and a target by their name,
\* in a list that is fetched once for the lookup.  The lookup yields the first
\* entry of the list whose key equals the key asked for, which is the entry
\* the command goes on with; when no entry has the key the command returns
\* the not-found error that names the key and makes no mutating call.
C21_NameResolution ==
    /\ \A op \in {"VolumeList", "LunList", "TargetList"} : Cardinality(CallsOf(op)) <= 1
    /\ (ResolvesLun /\ Listed("LunList")) =>
        /\ LunsNamed(args[1]) = {} =>
                (ret = errApp(lunNotFoundMsg, <<args[1]>>) /\ ~Mutated)
        /\ LunsNamed(args[1]) # {} =>
                /\ ret[2] # lunNotFoundMsg
                /\ Mutated => LunIdSent = FirstLun(args[1]).Uuid
    /\ (ResolvesTarget /\ Listed("TargetList")) =>
        /\ TargetsNamed(TargetKey) = {} =>
                (ret = errApp(targetNotFoundMsg, <<TargetKey>>) /\ ~Mutated)
        /\ TargetsNamed(TargetKey) # {} =>
                /\ ret[2] # targetNotFoundMsg
                /\ Mutated => TargetIdSent = Decimal(FirstTarget(TargetKey).TargetId)
    /\ (ResolvesVolume /\ Listed("VolumeList")) =>
        /\ VolumesAt(VolumeKey) = {} =>
                (ret = errApp(volumeNotFoundMsg, <<VolumeKey>>) /\ ~Mutated)
        /\ VolumesAt(VolumeKey) # {} =>
                /\ ret[2] # volumeNotFoundMsg
                /\ Called("LunCreate") =>
                    ArgOf("LunCreate").Type = TypeTable(FirstVolume(VolumeKey).FsType, flags.thin)
                /\ ret[2] = volumeNotEnoughSpaceMsg =>
                    ret[3] = <<VolumeKey, ParseUint(FirstVolume(VolumeKey).Free).val \div gb>>
    /\ Mutated =>
        /\ ResolvesLun => Cardinality(CallsOf("LunList")) = 1
        /\ ResolvesTarget => Cardinality(CallsOf("TargetList")) = 1
        /\ ResolvesVolume => Cardinality(CallsOf("VolumeList")) = 1

\* two LUNs of one name are listed, and the first of them is deleted
C21_Witness ==
    /\ cmd = "lun delete" /\ Listed("LunList")
    /\ Cardinality(LunsNamed(args[1])) = 2
    /\ ListedLuns[1].Uuid # ListedLuns[2].Uuid
    /\ Called("LunDelete") /\ ArgOf("LunDelete") = ListedLuns[1].Uuid
    /\ Exited

\* the places in the target list of the targets that map a LUN, and the
\* k-th of them in the order of the list
MappingTargets(uuid) ==
    {i \in 1..Len(ListedTargets) :
        \E j \in 1..Len(ListedTargets[i].MappedLuns) : ListedTargets[i].MappedLuns[j] = uuid}
NthOf(S, k) == CHOOSE i \in S : Cardinality({j \in S : j <= i}) = k
\* what the confirmation shows of them: the name, and whether "(connected)"
ShownTargets(uuid) ==
    [k \in 1..Cardinality(MappingTargets(uuid)) |->
        LET target == ListedTargets[NthOf(MappingTargets(uuid), k)]
        IN  <<target.Name, target.ConnectedSessions # <<>>>>]
\* `lun delete' has asked for the confirmation
LunDeleteAsked == LunResolved /\ ~flags.skip /\ Listed("TargetList")

\* C22: the confirmation of `lun delete' shows, after the question, one line
\* with the targets that have an entry of the found LUN's uuid among their
\* mapped LUNs: each such target once, in the order of the target list,
\* marked as connected iff it has a connected session.  The line is left out
\* when no target maps the LUN.  The prompt for the name follows.
C22_MappedTargetsShown ==
    LunDeleteAsked =>
        LET shown == ShownTargets(TheLun.Uuid)
            lines == <<Line(lunDeleteSureMsg, <<>>)>>
                     \o (IF shown = <<>> THEN <<>>
                         ELSE <<Line(lunDeleteMappedMsg, <<shown>>)>>)
                     \o <<Line(lunDeleteEnterMsg, <<args[1]>>)>>
        IN  /\ SubSeq(HandlerOut, 1, Len(lines)) = lines
            /\ shown = <<>> => ~Wrote(lunDeleteMappedMsg)

\* a target that maps the LUN twice and has no session, then one with a session
C22_Witness ==
    /\ LunDeleteAsked /\ Exited
    /\ TheLun.Uuid = "uuid-1"
    /\ ListedTargets = <<target2, target1>>
    /\ Wrote(lunDeleteMappedMsg)
    /\ HandlerOut[2] = Line(lunDeleteMappedMsg,
                            <<<<(<<targetName1, FALSE>>), (<<targetName1, TRUE>>)>>>>)

\* the entities a command has found: the list came back and has an entry
\* with the name that was asked for
LunFound == Listed("LunList") /\ LunsNamed(args[1]) # {}
TargetFound == Listed("TargetList") /\ TargetsNamed(TargetKey) # {}

\* C23: the calls that delete and map carry the identifiers the appliance
\* gave to the entities that were looked up: LunDelete the uuid of the LUN
\* found, TargetDelete the decimal numeral of the id of the target found,
\* LunMapTarget the list of that one numeral and the uuid of the LUN found.
\* `lun map' calls LunMapTarget only when it found both the LUN and the target.
C23_ResolvedIdentifiers ==
    /\ Called("LunDelete") =>
          /\ cmd = "lun delete" /\ LunFound
          /\ ArgOf("LunDelete") = FirstLun(args[1]).Uuid
    /\ Called("TargetDelete") =>
          /\ cmd = "target delete" /\ TargetFound
          /\ ArgOf("TargetDelete") = Decimal(FirstTarget(args[1]).TargetId)
    /\ Called("LunMapTarget") =>
          /\ cmd = "lun map" /\ LunFound /\ TargetFound
          /\ ArgOf("LunMapTarget") =
                <<(<<Decimal(FirstTarget(args[2]).TargetId)>>), FirstLun(args[1]).Uuid>>

\* `lun map l1 t1' where the lists have two entries of each name
C23_Witness ==
    /\ cmd = "lun map" /\ Exited
    /\ Listed("LunList") /\ ListedLuns = <<lun2, lun1>>
    /\ Listed("TargetList") /\ ListedTargets = <<target2, target1>>
    /\ Called("LunMapTarget")
    /\ ArgOf("LunMapTarget") = <<(<<(<<"2">>)>>), "uuid-2">>
    /\ Wrote(lunMappedMsg)

\* the calls that list, and the places in the history of the calls that
\* list or change something
ListOps == {"VolumeList", "LunList", "TargetList"}
WorkCalls == {i \in 1..Len(calls) : calls[i][1] \in ListOps \cup MutatingOps}
LoginFailed == Called("Login") /\ ~IsNil(ResultOf("Login"))

\* C24: a call that lists or changes something is made only after a Login
\* that succeeded and before the Logout.  After a Login that failed there is
\* no such call and no Logout, and the Logout is the last call of all.
C24_CallsWithinSession ==
    /\ \A i \in WorkCalls :
          /\ \E l \in CallsOf("Login") : l < i /\ IsNil(calls[l][3])
          /\ \A o \in CallsOf("Logout") : i < o
    /\ LoginFailed => WorkCalls = {} /\ ~Called("Logout")
    /\ \A o \in CallsOf("Logout") : o = Len(calls)

\* `lun delete' that listed the LUNs and the targets, deleted and logged out
C24_Witness ==
    /\ cmd = "lun delete" /\ Exited
    /\ LoggedIn
    /\ [i \in 1..Len(calls) |-> calls[i][1]] =
          <<"Init", "Login", "LunList", "TargetList", "LunDelete", "Logout">>

\* the call by which a command changes something, and the message by which
\* it reports that it has
ListCommands == {"volume list", "lun list", "target list"}
MutatingCommands == {"lun create", "lun map", "lun resize", "lun clone", "lun delete",
                     "target create", "target delete"}
MutatingCallOf(c) ==
    CASE c = "lun create" -> "LunCreate"
      [] c = "lun map" -> "LunMapTarget"
      [] c = "lun resize" -> "LunUpdate"
      [] c = "lun clone" -> "LunClone"
      [] c = "lun delete" -> "LunDelete"
      [] c = "target create" -> "TargetCreate"
      [] c = "target delete" -> "TargetDelete"
SuccessMsgOf(c) ==
    CASE c = "lun create" -> lunCreatedMsg
      [] c = "lun map" -> lunMappedMsg
      [] c = "lun resize" -> lunResizedMsg
      [] c = "lun clone" -> lunClonedMsg
      [] c = "lun delete" -> lunDeletedMsg
      [] c = "target create" -> targetCreatedMsg
      [] c = "target delete" -> targetDeletedMsg
SuccessMsgs == {SuccessMsgOf(c) : c \in MutatingCommands}
MutatingCalls == {i \in 1..Len(calls) : calls[i][1] \in MutatingOps}
SuccessLines == {i \in 1..Len(out) : out[i][1] \in SuccessMsgs}

\* C25: an invocation makes at most one call that changes something, and
\* only the call of its own command; the three list commands make none.  The
\* message of success of a command is printed iff that call was made and
\* returned no error.
C25_OneMutationReported ==
    /\ Cardinality(MutatingCalls) <= 1
    /\ \A i \in MutatingCalls :
          cmd \in MutatingCommands /\ calls[i][1] = MutatingCallOf(cmd)
    /\ cmd \in ListCommands => MutatingCalls = {} /\ SuccessLines = {}
    /\ \A i \in SuccessLines : cmd \in MutatingCommands /\ out[i][1] = SuccessMsgOf(cmd)
    /\ cmd \in MutatingCommands =>
          (Wrote(SuccessMsgOf(cmd)) <=>
              Called(MutatingCallOf(cmd)) /\ IsNil(ResultOf(MutatingCallOf(cmd))))

\* `lun resize' whose LunUpdate succeeded, and was reported
C25_Witness ==
    /\ cmd = "lun resize" /\ Exited
    /\ Cardinality(MutatingCalls) = 1
    /\ Called("LunUpdate") /\ IsNil(ResultOf("LunUpdate"))
    /\ Cardinality(SuccessLines) = 1
    /\ Wrote(lunResizedMsg)

====
